---- MODULE Spec2Model ----
(***************************************************************************)
(* Session-authenticated product catalog (Flask + SQLAlchemy on SQLite).   *)
(*                                                                         *)
(* Store     : tables, users, products   (models/db_model.py)              *)
(* Session   : flask.session is Flask's signed-cookie session: the server  *)
(*             keeps only app.secret_key (index.py:11); the session's      *)
(*             content ('user_id') travels in the cookie the client sends. *)
(*             jar is the cookie the browser holds, issued the contents    *)
(*             the server has signed so far.                               *)
(* Requests  : Spec     - one request at a time, a whole handler per step  *)
(*             ListSpec - the listing over every catalog deletes can leave *)
(*             ConcSpec - two server threads, one SQL statement per step   *)
(*                                                                         *)
(* Prices are Python floats; they are kept here in hundredths (1.5 = 150). *)
(* Strings with accents are written without them.                          *)
(***************************************************************************)
EXTENDS Integers, Sequences, FiniteSets

VARIABLES tables, users, products, jar, issued, req, resp,
          pc, loc, seedCommits

vars == <<tables, users, products, jar, issued, req, resp,
          pc, loc, seedCommits>>
store == <<tables, users, products>>
seqVars == <<jar, issued, req, resp>>
concVars == <<pc, loc, seedCommits>>

(***************************************************************************)
(* Bounds of the model                                                     *)
(***************************************************************************)
MaxPage == 3
MaxId == 8

(***************************************************************************)
(* Record store: schema and seed data                                      *)
(***************************************************************************)
AllTables == {"users", "products"}

SeedCount == 7

AdminUser == [username |-> "admin", password |-> "password123"]

SeedData ==
  << [name |-> "Laptop Ultraligera", description |-> "13 pulgadas, 16GB RAM, SSD 512GB", price |-> 120000],
     [name |-> "Monitor 4K", description |-> "27 pulgadas, 60Hz, HDR", price |-> 45050],
     [name |-> "Teclado Mecanico", description |-> "Switches Blue, Retroiluminacion RGB", price |-> 8599],
     [name |-> "Mouse Gaming", description |-> "Inalambrico, 16000 DPI", price |-> 5500],
     [name |-> "Webcam Full HD", description |-> "1080p a 30fps", price |-> 4999],
     [name |-> "Disco Duro Externo", description |-> "2TB, USB 3.0", price |-> 7500],
     [name |-> "Auriculares Inalambricos", description |-> "Cancelacion de ruido", price |-> 15000] >>

Max(a, b) == IF a >= b THEN a ELSE b
Min(a, b) == IF a <= b THEN a ELSE b

Ids(rows) == {rows[i].id : i \in 1..Len(rows)}

\* An id taken from the row count instead of the largest id
NextIdByCount(rows) == Len(rows) + 1

\* SQLite INTEGER PRIMARY KEY: a new row gets the largest id in the table plus one.
NextId(rows) == IF rows = <<>> THEN 1 ELSE rows[Len(rows)].id + 1

\* db.add(Product(...)): the row is appended under the generated id.
InsertRow(rows, name, description, price) ==
  Append(rows, [id |-> NextId(rows), name |-> name,
                description |-> description, price |-> price])

RECURSIVE InsertAll(_, _)
InsertAll(rows, data) ==
  IF data = <<>> THEN rows
  ELSE InsertAll(InsertRow(rows, Head(data).name, Head(data).description, Head(data).price),
                 Tail(data))

SeedProducts == InsertAll(<<>>, SeedData)

\* is_db_model_created(["users", "products"]): every named table exists.
is_db_model_created(tbls, names) == \A tbl \in names : tbl \in tbls

HasAdmin(us) == \E i \in 1..Len(us) : us[i].username = "admin"

\* create_db_and_tables, the two guarded inserts and the commit.
SeedUsers(us) ==
  IF HasAdmin(us) THEN us
  ELSE Append(us, [id |-> NextId(us), username |-> AdminUser.username,
                   password |-> AdminUser.password])

SeedCatalog(rows) == IF Len(rows) = 0 THEN InsertAll(rows, SeedData) ELSE rows

\* initialize_database (before_request): what the store is once the hook has run.
NeedsInit == ~is_db_model_created(tables, {"users", "products"})
HookTables == IF NeedsInit THEN AllTables ELSE tables
HookUsers == IF NeedsInit THEN SeedUsers(users) ELSE users
HookProducts == IF NeedsInit THEN SeedCatalog(products) ELSE products

(***************************************************************************)
(* Record store: queries (each one `with get_db()` block)                  *)
(***************************************************************************)
\* check_user filtering on the username alone
check_user_by_name(us, username, password) ==
  LET hits == {i \in 1..Len(us) : us[i].username = username}
  IN IF hits = {} THEN <<>>
     ELSE <<us[CHOOSE i \in hits : \A j \in hits : i <= j].id>>

\* check_user: the first row matching both fields exactly; <<>> is None.
check_user(us, username, password) ==
  LET hits == {i \in 1..Len(us) : us[i].username = username /\ us[i].password = password}
  IN IF hits = {} THEN <<>>
     ELSE <<us[CHOOSE i \in hits : \A j \in hits : i <= j].id>>

\* .offset(o).limit(n).all() on SQLite: rows in rowid order; a negative OFFSET
\* counts as 0 and a negative LIMIT as no limit.
Window(rows, offset, limit) ==
  LET o == Max(offset, 0)
      n == IF limit < 0 THEN Len(rows) ELSE limit
  IN SubSeq(rows, o + 1, Min(Len(rows), o + n))

\* get_products skipping page * per_page rows
get_products_next_page(rows, page, per_page) ==
  LET offset == page * per_page
  IN [items |-> Window(rows, offset, per_page), total |-> Len(rows)]

\* get_products: (products_list, total_products)
get_products(rows, page, per_page) ==
  LET offset == (page - 1) * per_page
  IN [items |-> Window(rows, offset, per_page), total |-> Len(rows)]

\* get_product_by_id: <<row>> or <<>> (None)
get_product_by_id(rows, product_id) ==
  LET hits == {i \in 1..Len(rows) : rows[i].id = product_id}
  IN IF hits = {} THEN <<>> ELSE <<rows[CHOOSE i \in hits : \A j \in hits : i <= j]>>

\* add_product: the table after the commit and the refreshed id
add_product(rows, name, description, price) ==
  [rows |-> InsertRow(rows, name, description, price), id |-> NextId(rows)]

\* db.delete(row); db.commit(): DELETE FROM products WHERE id = :id
DeleteRow(rows, product_id) ==
  LET keep == {i \in 1..Len(rows) : rows[i].id # product_id}
      F[k \in 0..Len(rows)] ==
        IF k = 0 THEN <<>>
        ELSE IF k \in keep THEN Append(F[k - 1], rows[k]) ELSE F[k - 1]
  IN F[Len(rows)]

\* delete_product reporting 1 whether or not the SELECT found the row
delete_product_blind(rows, product_id) ==
  [rows |-> DeleteRow(rows, product_id), count |-> 1]

\* delete_product: 1 and the row gone when the SELECT finds it, else 0
delete_product(rows, product_id) ==
  IF get_product_by_id(rows, product_id) # <<>>
  THEN [rows |-> DeleteRow(rows, product_id), count |-> 1]
  ELSE [rows |-> rows, count |-> 0]

(***************************************************************************)
(* JSON values of a request body and Python's float()                      *)
(***************************************************************************)
JStr(chars) == [t |-> "str", chars |-> chars, n |-> 0]
JNum(n) == [t |-> "num", chars |-> <<>>, n |-> n]
JNull == [t |-> "null", chars |-> <<>>, n |-> 0]

DigitChars == {"0", "1", "2", "3", "4", "5", "6", "7", "8", "9"}
DigitValue(c) ==
  CASE c = "0" -> 0 [] c = "1" -> 1 [] c = "2" -> 2 [] c = "3" -> 3 [] c = "4" -> 4
    [] c = "5" -> 5 [] c = "6" -> 6 [] c = "7" -> 7 [] c = "8" -> 8 [] c = "9" -> 9

IsDigits(s) == \A i \in 1..Len(s) : s[i] \in DigitChars

RECURSIVE DigitsValue(_)
DigitsValue(s) ==
  IF s = <<>> THEN 0
  ELSE 10 * DigitsValue(SubSeq(s, 1, Len(s) - 1)) + DigitValue(s[Len(s)])

\* The fraction digits as hundredths (digits past the second are dropped).
FractionValue(s) ==
  IF Len(s) = 0 THEN 0
  ELSE IF Len(s) = 1 THEN 10 * DigitValue(s[1])
  ELSE 10 * DigitValue(s[1]) + DigitValue(s[2])

\* float(str): decimal digits with at most one point; anything else is a ValueError.
ParseFloat(s) ==
  LET dots == {i \in 1..Len(s) : s[i] = "."}
  IN IF dots = {}
     THEN IF Len(s) > 0 /\ IsDigits(s)
          THEN [exc |-> "", v |-> 100 * DigitsValue(s)]
          ELSE [exc |-> "ValueError", v |-> 0]
     ELSE LET k == CHOOSE i \in dots : TRUE
              ip == SubSeq(s, 1, k - 1)
              fp == SubSeq(s, k + 1, Len(s))
          IN IF Cardinality(dots) = 1 /\ IsDigits(ip) /\ IsDigits(fp) /\ Len(ip) + Len(fp) > 0
             THEN [exc |-> "", v |-> 100 * DigitsValue(ip) + FractionValue(fp)]
             ELSE [exc |-> "ValueError", v |-> 0]

\* float(data['price']): a number converts, a string is parsed, None is a TypeError.
Float(value) ==
  CASE value.t = "num" -> [exc |-> "", v |-> value.n]
    [] value.t = "str" -> ParseFloat(value.chars)
    [] OTHER -> [exc |-> "TypeError", v |-> 0]

(***************************************************************************)
(* HTTP surface: requests and responses                                    *)
(***************************************************************************)
MsgUnauthorized == "Acceso no autorizado. Por favor, inicie sesion."
MsgNoPage == "No hay productos en esta pagina."
MsgListError == "Error interno del servidor al listar productos."
MsgNotFound == "Producto con ID {product_id} no encontrado."
MsgMissing == "Faltan campos obligatorios (name y price)."
MsgCreated == "Producto creado exitosamente."
MsgBadPrice == "El precio debe ser un numero valido."
MsgCreateError == "Error interno del servidor al crear producto."
MsgDeleted == "Producto con ID {product_id} eliminado exitosamente."
MsgNotFoundDelete == "Producto con ID {product_id} no encontrado para eliminar."
MsgBadLogin == "Credenciales incorrectas. Intente de nuevo."

ApiOps == {"list", "get", "create", "delete"}

\* request.get_json(): None, or a dict with the keys it holds
NoBody == [none |-> TRUE, keys |-> {}, name |-> "", description |-> "", price |-> JNull]
Body(keys, name, description, price) ==
  [none |-> FALSE, keys |-> keys, name |-> name, description |-> description, price |-> price]

NoReq == [op |-> "", cookie |-> 0, username |-> "", password |-> "", id |-> 0,
          page |-> 0, per_page |-> 0, body |-> NoBody, fault |-> FALSE]

NoResp == [status |-> 0, kind |-> "", message |-> "", target |-> "", id |-> 0, name |-> "",
           product |-> <<>>, products |-> <<>>, pagination |-> <<>>]

\* jsonify({'message': ...}), status
Json(status, message) == [NoResp EXCEPT !.status = status, !.kind = "json", !.message = message]
\* redirect(url_for(target))
Redirect(target) == [NoResp EXCEPT !.status = 302, !.kind = "redirect", !.target = target]
\* render_template(template, message=...)
Render(template, message) ==
  [NoResp EXCEPT !.status = 200, !.kind = "html", !.target = template, !.message = message]
\* An exception no handler catches: Flask answers 500 with its HTML error page.
Unhandled == [NoResp EXCEPT !.status = 500, !.kind = "html"]

\* Inputs of the requests
Usernames == {"admin", "bob"}
Passwords == {"password123", "admin"}
PageInputs == 0..MaxPage
PerPageInputs == {0, 2, 5}
IdInputs == {1, SeedCount} \cup ((SeedCount + 1)..MaxId)
PriceText == JStr(<<"1", ".", "5">>)
PriceWord == JStr(<<"a", "b", "c">>)
Bodies ==
  { NoBody,
    Body({"description"}, "", "x", JNull),
    Body({"price"}, "", "", PriceText),
    Body({"name", "price"}, "Pen", "", PriceText),
    Body({"name", "description", "price"}, "Pen", "x", JNum(200)),
    Body({"name", "price"}, "Pen", "", PriceWord),
    Body({"name", "price"}, "Pen", "", JNull) }

\* The cookie a request may present: the browser's, none, or one signed earlier.
Cookies == {jar, 0} \cup issued

\* require_auth: 'user_id' in session
Authorized(cookie) == cookie # 0

(***************************************************************************)
(* Route handlers, as functions of the store the before_request hook left  *)
(***************************************************************************)
\* require_auth without the session test
require_auth_open(cookie, answer) == answer

\* require_auth: the 401 answer, or the decorated route's
require_auth(cookie, answer) ==
  IF ~Authorized(cookie) THEN Json(401, MsgUnauthorized) ELSE answer

\* list_products; fault: get_products raised
list_products(rows, page, per_page, fault) ==
  IF fault THEN Json(500, MsgListError)
  ELSE LET got == get_products(rows, page, per_page)
       IN IF got.items = <<>> /\ page > 1 THEN Json(404, MsgNoPage)
          ELSE IF per_page = 0 THEN Json(500, MsgListError)   \* ZeroDivisionError
          ELSE [NoResp EXCEPT
                  !.status = 200, !.kind = "json", !.products = got.items,
                  !.pagination = << [total_items |-> got.total,
                                     total_pages |-> (got.total + per_page - 1) \div per_page,
                                     current_page |-> page,
                                     per_page |-> per_page] >>]

\* get_single_product; fault: get_product_by_id raised, and nothing catches it
get_single_product(rows, product_id, fault) ==
  IF fault THEN Unhandled
  ELSE LET product == get_product_by_id(rows, product_id)
       IN IF product # <<>>
          THEN [NoResp EXCEPT !.status = 200, !.kind = "json", !.product = product]
          ELSE [Json(404, MsgNotFound) EXCEPT !.id = product_id]

\* The validation of add_new_product that precedes the insert.
MissingFields(body) == body.none \/ body.keys = {} \/ "name" \notin body.keys \/ "price" \notin body.keys
ReachesInsert(body) == ~MissingFields(body) /\ Float(body.price).exc = ""

\* add_new_product: the answer and the products table it leaves; fault: add_product raised
add_new_product(rows, body, fault) ==
  IF MissingFields(body) THEN [resp |-> Json(400, MsgMissing), rows |-> rows]
  ELSE LET price == Float(body.price)
           description == IF "description" \in body.keys THEN body.description ELSE ""
       IN IF price.exc = "ValueError" THEN [resp |-> Json(400, MsgBadPrice), rows |-> rows]
          ELSE IF price.exc # "" \/ fault THEN [resp |-> Json(500, MsgCreateError), rows |-> rows]
          ELSE LET added == add_product(rows, body.name, description, price.v)
               IN [resp |-> [Json(201, MsgCreated) EXCEPT !.id = added.id, !.name = body.name],
                   rows |-> added.rows]

\* delete_single_product; fault: delete_product raised, and nothing catches it
delete_single_product(rows, product_id, fault) ==
  IF fault THEN [resp |-> Unhandled, rows |-> rows]
  ELSE LET deleted == delete_product(rows, product_id)
       IN IF deleted.count > 0
          THEN [resp |-> [Json(200, MsgDeleted) EXCEPT !.id = product_id], rows |-> deleted.rows]
          ELSE [resp |-> [Json(404, MsgNotFoundDelete) EXCEPT !.id = product_id], rows |-> deleted.rows]

(***************************************************************************)
(* Spec: one request per step (hook, guard, route)                         *)
(***************************************************************************)
Threads == {1, 2}
\* What a thread holds between the statements of one request.
NoLoc == [op |-> "", id |-> 0, page |-> 0, per_page |-> 0, todo |-> {}, items |-> <<>>,
          addAdmin |-> FALSE, addSeed |-> FALSE, rowcount |-> 0, resp |-> NoResp]

StoreInit ==
  /\ tables = {}
  /\ users = <<>>
  /\ products = <<>>

ConcIdle ==
  /\ pc = [t \in Threads |-> "idle"]
  /\ loc = [t \in Threads |-> NoLoc]
  /\ seedCommits = 0

Init ==
  /\ StoreInit
  /\ jar = 0
  /\ issued = {}
  /\ req = NoReq
  /\ resp = NoResp
  /\ ConcIdle

\* initialize_database ran; the route left the users alone
Hooked(rows) ==
  /\ tables' = HookTables
  /\ users' = HookUsers
  /\ products' = rows
  /\ UNCHANGED concVars

\* GET /
Index ==
  /\ req' = [NoReq EXCEPT !.op = "index", !.cookie = jar]
  /\ resp' = IF Authorized(jar) THEN Redirect("dashboard") ELSE Render("login.html", "")
  /\ Hooked(HookProducts)
  /\ UNCHANGED <<jar, issued>>

\* GET /login
LoginForm ==
  /\ req' = [NoReq EXCEPT !.op = "login_get", !.cookie = jar]
  /\ resp' = Render("login.html", "")
  /\ Hooked(HookProducts)
  /\ UNCHANGED <<jar, issued>>

\* POST /login; fault: check_user raised, and nothing catches it
Login ==
  \E username \in Usernames, password \in Passwords, fault \in BOOLEAN :
    LET user_id == check_user(HookUsers, username, password)
    IN /\ req' = [NoReq EXCEPT !.op = "login", !.cookie = jar, !.username = username,
                               !.password = password, !.fault = fault]
       /\ IF fault
          THEN resp' = Unhandled /\ UNCHANGED <<jar, issued>>
          ELSE IF user_id # <<>>
          THEN /\ jar' = user_id[1]
               /\ issued' = issued \cup {user_id[1]}
               /\ resp' = Redirect("dashboard")
          ELSE /\ resp' = Render("login.html", MsgBadLogin)
               /\ UNCHANGED <<jar, issued>>
       /\ Hooked(HookProducts)

\* GET /logout: session.pop('user_id', None)
Logout ==
  /\ req' = [NoReq EXCEPT !.op = "logout", !.cookie = jar]
  /\ jar' = 0
  /\ resp' = Redirect("index")
  /\ Hooked(HookProducts)
  /\ UNCHANGED issued

\* GET /dashboard
Dashboard ==
  \E cookie \in Cookies :
    /\ req' = [NoReq EXCEPT !.op = "dashboard", !.cookie = cookie]
    /\ resp' = IF ~Authorized(cookie) THEN Redirect("login")
               ELSE [Render("dashboard.html", "") EXCEPT !.id = cookie]
    /\ Hooked(HookProducts)
    /\ UNCHANGED <<jar, issued>>

\* GET /api/products?page=&per_page=
ListProducts ==
  \E cookie \in Cookies, page \in PageInputs, per_page \in PerPageInputs, fault \in BOOLEAN :
    /\ fault => Authorized(cookie)
    /\ req' = [NoReq EXCEPT !.op = "list", !.cookie = cookie, !.page = page,
                            !.per_page = per_page, !.fault = fault]
    /\ resp' = require_auth(cookie, list_products(HookProducts, page, per_page, fault))
    /\ Hooked(HookProducts)
    /\ UNCHANGED <<jar, issued>>

\* GET /api/products/<id>
GetProduct ==
  \E cookie \in Cookies, product_id \in IdInputs, fault \in BOOLEAN :
    /\ fault => Authorized(cookie)
    /\ req' = [NoReq EXCEPT !.op = "get", !.cookie = cookie, !.id = product_id, !.fault = fault]
    /\ resp' = require_auth(cookie, get_single_product(HookProducts, product_id, fault))
    /\ Hooked(HookProducts)
    /\ UNCHANGED <<jar, issued>>

\* POST /api/products
CreateProduct ==
  \E cookie \in Cookies, body \in Bodies, fault \in BOOLEAN :
    LET done == add_new_product(HookProducts, body, fault)
    IN /\ NextId(HookProducts) <= MaxId
       /\ fault => (Authorized(cookie) /\ ReachesInsert(body))
       /\ req' = [NoReq EXCEPT !.op = "create", !.cookie = cookie, !.body = body, !.fault = fault]
       /\ resp' = require_auth(cookie, done.resp)
       /\ Hooked(IF Authorized(cookie) THEN done.rows ELSE HookProducts)
       /\ UNCHANGED <<jar, issued>>

\* DELETE /api/products/<id>
DeleteProduct ==
  \E cookie \in Cookies, product_id \in IdInputs, fault \in BOOLEAN :
    LET done == delete_single_product(HookProducts, product_id, fault)
    IN /\ fault => Authorized(cookie)
       /\ req' = [NoReq EXCEPT !.op = "delete", !.cookie = cookie, !.id = product_id, !.fault = fault]
       /\ resp' = require_auth(cookie, done.resp)
       /\ Hooked(IF Authorized(cookie) THEN done.rows ELSE HookProducts)
       /\ UNCHANGED <<jar, issued>>

Next ==
  \/ Index
  \/ LoginForm
  \/ Login
  \/ Logout
  \/ Dashboard
  \/ ListProducts
  \/ GetProduct
  \/ CreateProduct
  \/ DeleteProduct

Spec == Init /\ [][Next]_vars

(***************************************************************************)
(* Properties of Spec                                                      *)
(***************************************************************************)
IsApi(r) == r.op \in ApiOps
Matches(us, username, password) ==
  \E i \in 1..Len(us) : us[i].username = username /\ us[i].password = password
MatchId(us, username, password) ==
  us[CHOOSE i \in 1..Len(us) : us[i].username = username /\ us[i].password = password].id

\* C1: a request to any /api route whose session holds no user_id is answered 401
\* with the one fixed message, and the route's body has not run: the products
\* are those the before_request hook left.
C1_UnauthorizedRejected ==
  [][ (IsApi(req') /\ ~Authorized(req'.cookie))
        => (resp' = Json(401, MsgUnauthorized) /\ products' = HookProducts) ]_vars

\* An unauthorized DELETE of a product that exists was answered 401 and the product is still there.
C1_Witness ==
  /\ req.op = "delete"
  /\ req.cookie = 0
  /\ resp.status = 401
  /\ get_product_by_id(products, req.id) # <<>>

\* C2: once the browser has logged out and until the next successful login, a
\* protected request presenting a session cookie that was valid before the
\* logout is rejected: 401 on /api, the redirect to login on /dashboard.
C2_LoggedOutRejected ==
  (jar = 0 /\ req.cookie \in issued)
    => /\ IsApi(req) => resp.status = 401
       /\ req.op = "dashboard" => resp = Redirect("login")

C3_LoginOutcome ==
  (req.op = "login" /\ ~req.fault)
    => IF Matches(users, req.username, req.password)
       THEN /\ jar = MatchId(users, req.username, req.password)
            /\ jar \in issued
            /\ resp = Redirect("dashboard")
       ELSE /\ jar = req.cookie
            /\ resp = Render("login.html", MsgBadLogin)

C3_SessionAccepted ==
  Authorized(req.cookie)
    => /\ IsApi(req) => resp.status # 401
       /\ req.op = "dashboard" => (resp.status = 200 /\ resp.target = "dashboard.html")

C3_OnlyLoginIssues ==
  /\ (issued' # issued \/ (jar' # jar /\ jar' # 0))
       => /\ req'.op = "login"
          /\ Matches(users', req'.username, req'.password)
          /\ jar' = MatchId(users', req'.username, req'.password)
          /\ issued' = issued \cup {jar'}
  /\ (req'.op = "login" /\ ~Matches(users', req'.username, req'.password))
       => (issued' = issued /\ jar' = jar)

\* C3: a login with a pair that matches a stored user binds the session to that
\* user's id and protected requests with that session pass the guard; a login
\* with any other pair leaves the session as it was, and only a successful
\* login issues a session.
C3_Login == [](C3_LoginOutcome /\ C3_SessionAccepted) /\ [][C3_OnlyLoginIssues]_vars

\* A protected request made with the session of a successful login was served.
C3_Witness ==
  /\ req.op = "get"
  /\ jar # 0
  /\ req.cookie = jar
  /\ resp.status = 200

\* The number a submitted price stands for, in hundredths.
SubmittedPrice(value) == IF value = PriceText THEN 150 ELSE value.n
NumericPrice(value) == value = PriceText \/ value.t = "num"
AcceptedCreate ==
  /\ req.op = "create"
  /\ Authorized(req.cookie)
  /\ ~req.fault
  /\ ~req.body.none
  /\ {"name", "price"} \subseteq req.body.keys
  /\ NumericPrice(req.body.price)

\* C4: an accepted create is answered 201 with a new id; getOne(id) then returns
\* the submitted name, description ("" when omitted) and price as a number; the
\* id is that of no product that existed before; on the seed catalog it is 8.
C4_CreateThenGet ==
  /\ AcceptedCreate => resp.status = 201
  /\ (req.op = "create" /\ resp.status = 201)
       => LET got == get_product_by_id(products, resp.id)
              n == Len(products)
          IN /\ AcceptedCreate
             /\ got # <<>>
             /\ got[1] = [id |-> resp.id,
                          name |-> req.body.name,
                          description |-> IF "description" \in req.body.keys
                                          THEN req.body.description ELSE "",
                          price |-> SubmittedPrice(req.body.price)]
             /\ products[n].id = resp.id
             /\ \A i \in 1..(n - 1) : products[i].id # resp.id
             /\ SubSeq(products, 1, n - 1) = SeedProducts => resp.id = SeedCount + 1

\* {name: "Pen", price: "1.5"} on the seed catalog: id 8, description "", price 1.5.
C4_Witness ==
  /\ req.op = "create"
  /\ resp.status = 201
  /\ resp.id = 8
  /\ req.body.price = PriceText
  /\ get_product_by_id(products, 8) = <<[id |-> 8, name |-> "Pen", description |-> "", price |-> 150]>>

\* C5: remove(id) of a product that exists reports success, removes that row
\* alone and getOne(id) is then not-found; remove of an id that is absent or
\* already removed reports not-found and changes nothing.
C5_Remove ==
  [][ (req'.op = "delete" /\ Authorized(req'.cookie) /\ ~req'.fault)
        => LET id == req'.id
               Other(r) == r.id # id
           IN IF id \in Ids(HookProducts)
              THEN /\ resp'.status = 200
                   /\ products' = SelectSeq(HookProducts, Other)
                   /\ get_single_product(products', id, FALSE).status = 404
              ELSE /\ resp'.status = 404
                   /\ products' = HookProducts ]_vars

\* A second remove of seed product 1 was answered not-found.
C5_Witness ==
  /\ req.op = "delete"
  /\ Authorized(req.cookie)
  /\ req.id = 1
  /\ resp.status = 404
  /\ resp.message = MsgNotFoundDelete

\* C7: an authenticated create whose body lacks name or price is answered 400
\* with the missing-fields message; one whose price is present but is no number
\* is answered 400 with the price message; neither adds a product.
C7_CreateValidation ==
  [][ (req'.op = "create" /\ Authorized(req'.cookie))
        => /\ MissingFields(req'.body)
                => (resp' = Json(400, MsgMissing) /\ products' = HookProducts)
           /\ (~MissingFields(req'.body) /\ ~NumericPrice(req'.body.price))
                => (resp' = Json(400, MsgBadPrice) /\ products' = HookProducts) ]_vars

\* C8: on every /api route a storage fault is answered 500 with a JSON object
\* carrying a message, and every error answer of an /api route is such an object.
C8_JsonErrors ==
  IsApi(req)
    => /\ req.fault => resp.status = 500
       /\ resp.status >= 400 => (resp.kind = "json" /\ resp.message # "")

(***************************************************************************)
(* ListSpec: the listing, on every catalog that deletes of seed products   *)
(* can leave, with a logged-in browser                                     *)
(***************************************************************************)
Catalogs ==
  {LET Kept(r) == r.id \in S IN SelectSeq(SeedProducts, Kept) : S \in SUBSET Ids(SeedProducts)}

ListInit ==
  /\ tables = AllTables
  /\ users = SeedUsers(<<>>)
  /\ products \in Catalogs
  /\ jar = users[1].id
  /\ issued = {jar}
  /\ req = NoReq
  /\ resp = NoResp
  /\ ConcIdle

ListNext == ListProducts

ListSpec == ListInit /\ [][ListNext]_vars

\* C6: for page >= 1 and per_page >= 1 the listing is answered not-found exactly
\* when page > 1 and the window is empty; otherwise it returns the at most
\* per_page products that follow the first (page-1)*per_page in id order,
\* total_items = the catalog's size and total_pages = ceil(total_items/per_page).
C6_Listing ==
  (req.op = "list" /\ Authorized(req.cookie) /\ ~req.fault /\ req.page >= 1 /\ req.per_page >= 1)
    => LET total == Len(products)
           skip == (req.page - 1) * req.per_page
           n == IF total - skip >= req.per_page THEN req.per_page
                ELSE IF total > skip THEN total - skip ELSE 0
           pages == CHOOSE k \in 0..total : k * req.per_page >= total /\ (k - 1) * req.per_page < total
       IN /\ resp.status = (IF req.page > 1 /\ n = 0 THEN 404 ELSE 200)
          /\ (total > 0 /\ req.page > pages) => resp.status = 404
          /\ resp.status = 404 => resp = Json(404, MsgNoPage)
          /\ resp.status = 200
               => /\ Len(resp.products) <= req.per_page
                  /\ resp.products = [i \in 1..n |-> products[skip + i]]
                  /\ resp.pagination = << [total_items |-> total, total_pages |-> pages,
                                           current_page |-> req.page, per_page |-> req.per_page] >>

\* The seed catalog, page 2 of 5 per page: the last 2 of 7 products, 2 pages.
C6_Witness ==
  /\ req.op = "list"
  /\ products = SeedProducts
  /\ req.page = 2
  /\ req.per_page = 5
  /\ resp.status = 200
  /\ Len(resp.products) = 2
  /\ resp.pagination[1].total_pages = 2

(***************************************************************************)
(* ConcSpec: two server threads; a step is one SQL statement (SELECTs run  *)
(* outside a transaction with the sqlite3 driver) or one flush-and-commit. *)
(* seedCommits counts the commits that inserted the seed products.         *)
(***************************************************************************)
ConcOps == {"visit", "login", "list", "delete"}
ConcPages == {2}
ConcPerPage == {5}

Goto(t, label) == pc' = [pc EXCEPT ![t] = label]

\* The route returns: the answer is ready to be sent.
Answer(t, answer) ==
  /\ pc' = [pc EXCEPT ![t] = "done"]
  /\ loc' = [loc EXCEPT ![t].resp = answer]

\* A request arrives; an /api request carries a session cookie a login has issued.
Start(t) ==
  /\ pc[t] = "idle"
  /\ \E op \in ConcOps, product_id \in 1..SeedCount, page \in ConcPages, per_page \in ConcPerPage :
       /\ op \in ApiOps => issued # {}
       /\ loc' = [loc EXCEPT ![t] =
                    [NoLoc EXCEPT !.op = op,
                                  !.id = IF op = "delete" THEN product_id ELSE 0,
                                  !.page = IF op = "list" THEN page ELSE 0,
                                  !.per_page = IF op = "list" THEN per_page ELSE 0]]
  /\ Goto(t, "hook")
  /\ UNCHANGED <<store, seqVars, seedCommits>>

\* initialize_database: is_db_model_created(["users", "products"])
HookCheck(t) ==
  /\ pc[t] = "hook"
  /\ Goto(t, IF is_db_model_created(tables, {"users", "products"}) THEN "route" ELSE "create_all")
  /\ UNCHANGED <<store, seqVars, loc, seedCommits>>

\* Base.metadata.create_all: the tables found missing are the ones to create
CreateAllCheck(t) ==
  /\ pc[t] = "create_all"
  /\ loc' = [loc EXCEPT ![t].todo = AllTables \ tables]
  /\ Goto(t, IF AllTables \ tables = {} THEN "q_admin" ELSE "create_table")
  /\ UNCHANGED <<store, seqVars, seedCommits>>

\* CREATE TABLE for the next one; "table already exists" ends the hook in its except
CreateTable(t) ==
  /\ pc[t] = "create_table"
  /\ LET tbl == IF "products" \in loc[t].todo THEN "products" ELSE "users"
         left == loc[t].todo \ {tbl}
     IN IF tbl \in tables
        THEN /\ loc' = [loc EXCEPT ![t].todo = {}]
             /\ Goto(t, "route")
             /\ UNCHANGED tables
        ELSE /\ tables' = tables \cup {tbl}
             /\ loc' = [loc EXCEPT ![t].todo = left]
             /\ Goto(t, IF left = {} THEN "q_admin" ELSE "create_table")
  /\ UNCHANGED <<users, products, seqVars, seedCommits>>

\* db.query(User).filter(User.username == 'admin').first() is None
QueryAdmin(t) ==
  /\ pc[t] = "q_admin"
  /\ loc' = [loc EXCEPT ![t].addAdmin = ~HasAdmin(users)]
  /\ Goto(t, "q_count")
  /\ UNCHANGED <<store, seqVars, seedCommits>>

\* db.query(Product).count() == 0
QueryCount(t) ==
  /\ pc[t] = "q_count"
  /\ loc' = [loc EXCEPT ![t].addSeed = (Len(products) = 0)]
  /\ Goto(t, "commit")
  /\ UNCHANGED <<store, seqVars, seedCommits>>

\* db.commit(): the pending inserts, or a rollback on the UNIQUE username
CommitSeed(t) ==
  /\ pc[t] = "commit"
  /\ IF loc[t].addAdmin /\ HasAdmin(users)
     THEN UNCHANGED <<users, products, seedCommits>>
     ELSE /\ users' = IF loc[t].addAdmin THEN SeedUsers(users) ELSE users
          /\ products' = IF loc[t].addSeed THEN InsertAll(products, SeedData) ELSE products
          /\ seedCommits' = IF loc[t].addSeed THEN seedCommits + 1 ELSE seedCommits
  /\ loc' = [loc EXCEPT ![t].addAdmin = FALSE, ![t].addSeed = FALSE]
  /\ Goto(t, "route")
  /\ UNCHANGED <<tables, seqVars>>

\* A route that touches neither the store nor the session (GET /login)
Visit(t) ==
  /\ pc[t] = "route"
  /\ loc[t].op = "visit"
  /\ Answer(t, Render("login.html", ""))
  /\ UNCHANGED <<store, seqVars, seedCommits>>

\* POST /login with the seed credentials: check_user, then the session
ConcLogin(t) ==
  /\ pc[t] = "route"
  /\ loc[t].op = "login"
  /\ LET user_id == check_user(users, AdminUser.username, AdminUser.password)
     IN IF "users" \notin tables
        THEN Answer(t, Unhandled) /\ UNCHANGED <<jar, issued>>
        ELSE IF user_id # <<>>
        THEN /\ jar' = user_id[1]
             /\ issued' = issued \cup {user_id[1]}
             /\ Answer(t, Redirect("dashboard"))
        ELSE /\ Answer(t, Render("login.html", MsgBadLogin))
             /\ UNCHANGED <<jar, issued>>
  /\ UNCHANGED <<store, req, resp, seedCommits>>

\* get_products, first statement: the page of rows
ListItems(t) ==
  /\ pc[t] = "route"
  /\ loc[t].op = "list"
  /\ loc' = [loc EXCEPT ![t].items = get_products(products, loc[t].page, loc[t].per_page).items]
  /\ Goto(t, "list_count")
  /\ UNCHANGED <<store, seqVars, seedCommits>>

\* get_products, second statement: the count; then list_products answers
ListCount(t) ==
  /\ pc[t] = "list_count"
  /\ LET page == loc[t].page
         per_page == loc[t].per_page
         total == get_products(products, page, per_page).total
     IN Answer(t, IF loc[t].items = <<>> /\ page > 1 THEN Json(404, MsgNoPage)
                  ELSE [NoResp EXCEPT
                          !.status = 200, !.kind = "json", !.products = loc[t].items,
                          !.pagination = << [total_items |-> total,
                                             total_pages |-> (total + per_page - 1) \div per_page,
                                             current_page |-> page,
                                             per_page |-> per_page] >>])
  /\ UNCHANGED <<store, seqVars, seedCommits>>

\* delete_product, the SELECT: no row is 0, and delete_single_product answers 404
DeleteSelect(t) ==
  /\ pc[t] = "route"
  /\ loc[t].op = "delete"
  /\ IF get_product_by_id(products, loc[t].id) # <<>>
     THEN Goto(t, "delete_commit") /\ UNCHANGED loc
     ELSE Answer(t, [Json(404, MsgNotFoundDelete) EXCEPT !.id = loc[t].id])
  /\ UNCHANGED <<store, seqVars, seedCommits>>

\* delete_product, db.delete and db.commit: the DELETE statement (a row already
\* gone is 0 rows matched, which the ORM only warns about), then return 1
DeleteCommit(t) ==
  /\ pc[t] = "delete_commit"
  /\ products' = DeleteRow(products, loc[t].id)
  /\ pc' = [pc EXCEPT ![t] = "done"]
  /\ loc' = [loc EXCEPT ![t].rowcount = Len(products) - Len(products'),
                        ![t].resp = [Json(200, MsgDeleted) EXCEPT !.id = loc[t].id]]
  /\ UNCHANGED <<tables, users, seqVars, seedCommits>>

\* The answer is sent and the thread takes the next request.
Respond(t) ==
  /\ pc[t] = "done"
  /\ pc' = [pc EXCEPT ![t] = "idle"]
  /\ loc' = [loc EXCEPT ![t] = NoLoc]
  /\ UNCHANGED <<store, seqVars, seedCommits>>

ConcNext ==
  \E t \in Threads :
    \/ Start(t)
    \/ HookCheck(t)
    \/ CreateAllCheck(t)
    \/ CreateTable(t)
    \/ QueryAdmin(t)
    \/ QueryCount(t)
    \/ CommitSeed(t)
    \/ Visit(t)
    \/ ConcLogin(t)
    \/ ListItems(t)
    \/ ListCount(t)
    \/ DeleteSelect(t)
    \/ DeleteCommit(t)
    \/ Respond(t)

ConcSpec == Init /\ [][ConcNext]_vars

\* The rows a listing of a catalog of `total` products returns.
WindowSize(total, page, per_page) ==
  LET skip == (page - 1) * per_page
  IN IF total - skip >= per_page THEN per_page ELSE IF total > skip THEN total - skip ELSE 0

\* C9: every answer is that of some sequential order of the calls: the items
\* and total_items of a listing describe one catalog state, and a DELETE that
\* reports success has removed the product (of two for one id, only one does).
C9_Atomic ==
  \A t \in Threads :
    pc[t] = "done"
      => /\ (loc[t].op = "list" /\ loc[t].resp.status = 200)
              => Len(loc[t].resp.products) =
                   WindowSize(loc[t].resp.pagination[1].total_items, loc[t].page, loc[t].per_page)
         /\ (loc[t].op = "delete" /\ loc[t].resp.status = 200) => loc[t].rowcount = 1

AdminCount == Cardinality({i \in 1..Len(users) : users[i].username = "admin"})

\* C10: the store never holds two admin users, holds exactly one once the
\* tables are there and no request is in flight, and the seed products are
\* inserted at most once (an emptied catalog is not seeded again).
C10_SeedOnce ==
  /\ AdminCount <= 1
  /\ seedCommits <= 1
  /\ (tables # {} /\ \A t \in Threads : pc[t] = "idle") => (AdminCount = 1 /\ tables = AllTables)

====
